---- MODULE Spec2Model ----
(***************************************************************************)
(* URL shortener (src/server.js): the urls table (Link Store), the visits  *)
(* table (Visit Ledger) and the three route handlers that use them.        *)
(*                                                                         *)
(* Strings that the code inspects character by character (short codes) are *)
(* sequences of one-character strings.  Times are milliseconds since the   *)
(* start of the run.  A create handler runs one store statement and a      *)
(* stats handler only reads: each is one step.  A redirect handler runs    *)
(* three store statements (findByCode, updateOnVisit, insertVisit) and is  *)
(* three steps, so that redirects interleave with every other request at   *)
(* the granularity of store statements.  What a handler answers is a       *)
(* function of the store and of the request; the actions apply it.  Every   *)
(* request passes the logging middleware (src/loging-middleware.js) in the  *)
(* step in which its handler starts.                                        *)
(***************************************************************************)
EXTENDS Integers, Sequences, FiniteSets, Bags, TLC

\* ------------------------------------------------------------------ bounds
MaxTicks == 1
MaxVisits == 2

\* The clock advances in steps of the default validity: a record created with
\* it at time 0 is, one step later, exactly at its expiry.
TickMs == 30 * 60 * 1000

\* ------------------------------------------------------- program constants
DEFAULT_VALIDITY == 30
BASE_URL == "http://localhost:8080"
MinCodeLen == 4
MaxCodeLen == 32
NanoidLen == 7

\* SQL NULL in a text column, and in a time column.
NULL == "NULL"
NullTime == 0 - 1

\* ------------------------------------------------------------------ strings
Upper == <<"A","B","C","D","E","F","G","H","I","J","K","L","M",
           "N","O","P","Q","R","S","T","U","V","W","X","Y","Z">>
Lower == <<"a","b","c","d","e","f","g","h","i","j","k","l","m",
           "n","o","p","q","r","s","t","u","v","w","x","y","z">>
Digits == {"0","1","2","3","4","5","6","7","8","9"}
WhiteSpace == {" ", "\t", "\n"}

Range(s) == {s[i] : i \in 1..Len(s)}

toLowerCaseChar(c) ==
  IF \E i \in 1..Len(Upper) : Upper[i] = c
    THEN Lower[CHOOSE i \in 1..Len(Upper) : Upper[i] = c]
    ELSE c

toLowerCase(s) == [i \in 1..Len(s) |-> toLowerCaseChar(s[i])]

RECURSIVE trimStart(_)
trimStart(s) ==
  IF s = <<>> THEN s
  ELSE IF Head(s) \in WhiteSpace THEN trimStart(Tail(s)) ELSE s

RECURSIVE trimEnd(_)
trimEnd(s) ==
  IF s = <<>> THEN s
  ELSE IF s[Len(s)] \in WhiteSpace THEN trimEnd(SubSeq(s, 1, Len(s) - 1)) ELSE s

trim(s) == trimEnd(trimStart(s))

\* ------------------------------------------------------------------- inputs
\* Bodies of POST /shorturls: url, validity, shortcode.
UrlInputs ==
  { [text |-> "", parses |-> FALSE, protocol |-> ""],
    [text |-> "https://example.com/page", parses |-> TRUE, protocol |-> "https:"],
    [text |-> "http://a.io/x", parses |-> TRUE, protocol |-> "http:"],
    [text |-> "ftp://files.example.com/f", parses |-> TRUE, protocol |-> "ftp:"],
    [text |-> "not a url", parses |-> FALSE, protocol |-> ""] }

\* validity: absent, an integer, a non-integer number, a string.
ValidityInputs ==
  { [kind |-> "undefined", n |-> 0],
    [kind |-> "integer", n |-> 0],
    [kind |-> "integer", n |-> 0 - 1],
    [kind |-> "integer", n |-> 1],
    [kind |-> "float", n |-> 1],
    [kind |-> "string", n |-> 1] }

TooLong == [i \in 1..33 |-> "a"]

ShortcodeInputs ==
  { <<>>,
    <<" ", " ">>,
    <<"a","b","c","d">>,
    <<"A","B","c","d">>,
    <<" ","a","b","c","d","\t">>,
    <<"g","x","_","-","7","q","z">>,
    <<"a","b">>,
    <<"a","b","!","d">>,
    TooLong }

\* What nanoid(7) may return.
NanoidOutputs ==
  { <<"G","x","_","-","7","Q","z">> }

\* Path parameter of GET /:code and GET /shorturls/:code.
CodeParams ==
  { <<"a","b","c","d">>,
    <<"A","B","C","D">>,
    <<"g","x","_","-","7","q","z">>,
    <<"n","o","n","e">> }

\* req.ip, req.headers['user-agent'] || null, req.headers['referer'] || null
VisitorContexts ==
  { [ip |-> "10.0.0.1", user_agent |-> "curl/8", referrer |-> NULL],
    [ip |-> "10.0.0.2", user_agent |-> NULL, referrer |-> "https://ref.example/"] }

\* ------------------------------------------------------------------ helpers
\* A request's url is described by its text and by what `new URL(text)` makes
\* of it: whether it parses, and the protocol of the parsed URL.
isValidHttpUrl(str) ==
  /\ str.parses
  /\ str.protocol = "http:" \/ str.protocol = "https:"

\* String(input || '').trim().toLowerCase(); an absent shortcode is <<>>.
\* Computed once for every string a request may carry.
CodeInputs == ShortcodeInputs \cup CodeParams \cup NanoidOutputs

\* Mutant: the code is trimmed but not lowercased.
Normalized_noLower == [input \in CodeInputs |-> trim(input)]

Normalized == [input \in CodeInputs |-> toLowerCase(trim(input))]
normalizeCode(input) == Normalized[input]

\* nanoid(7).toLowerCase()
Lowered == [nid \in NanoidOutputs |-> toLowerCase(nid)]
generateCode(nid) == Lowered[nid]

\* /^[a-zA-Z0-9-_]{4,32}$/
CodeChars == Range(Upper) \cup Range(Lower) \cup Digits \cup {"-", "_"}
RegexMatches == [code \in {Normalized[input] : input \in CodeInputs} |->
                   /\ Len(code) >= MinCodeLen
                   /\ Len(code) <= MaxCodeLen
                   /\ \A i \in 1..Len(code) : code[i] \in CodeChars]
CodeRegexTest(code) == RegexMatches[code]

\* -------------------------------------------------------------------- state
VARIABLES
  urls,      \* the urls table: a set of rows
  visits,    \* the visits table: rows in insertion order
  now,       \* the clock, in ms
  inflight,  \* the redirect handlers between two store statements: a bag
  resp,      \* the response being sent, NoResp when none is
  issued,    \* history: what the 201 responses told the clients
  served     \* history: the redirects answered 302, in order

vars == <<urls, visits, now, inflight, resp, issued, served>>

NoRow == [code |-> <<>>, long_url |-> "", created_at |-> NullTime,
          expiry_at |-> NullTime, last_accessed |-> NullTime, clicks |-> 0]

\* What the middleware leaves on a request: req.logID, and whether the line
\* for it reached the log file.
NoReq == [logID |-> 0, logged |-> FALSE]

\* A response: the request it answers (req), what it carries (status, error,
\* logID, location, expiry, body), the code the handler worked on, whether
\* that code came from nanoid, and the store statements the handler ran.
NoResp == [op |-> "none", status |-> 0, error |-> "", code |-> <<>>,
           location |-> "", expiry |-> NullTime, body |-> <<>>, stmts |-> <<>>,
           generated |-> FALSE, logID |-> 0, req |-> NoReq]

Response(op, status, error, code, stmts) ==
  [NoResp EXCEPT !.op = op, !.status = status, !.error = error,
                 !.code = code, !.stmts = stmts]

\* datetime('now'): the clock cut to whole seconds.
datetimeNow == (now \div 1000) * 1000

\* --------------------------------------------------------- store statements
\* Mutant: code is no primary key, every insert adds a row.
insertUrl_noPrimaryKey(code, long_url, expiry_at) ==
  [error |-> "",
   table |-> urls \cup { [code |-> code, long_url |-> long_url,
                          created_at |-> datetimeNow, expiry_at |-> expiry_at,
                          last_accessed |-> NullTime, clicks |-> 0] }]

\* Mutant: INSERT OR REPLACE, a row with the same code is replaced.
insertUrl_orReplace(code, long_url, expiry_at) ==
  [error |-> "",
   table |-> {row \in urls : row.code # code}
               \cup { [code |-> code, long_url |-> long_url,
                       created_at |-> datetimeNow, expiry_at |-> expiry_at,
                       last_accessed |-> NullTime, clicks |-> 0] }]

\* INSERT INTO urls (code, long_url, expiry_at): the table afterwards, or the
\* UNIQUE error of the primary key on code.
insertUrl(code, long_url, expiry_at) ==
  IF \E row \in urls : row.code = code
    THEN [error |-> "UNIQUE constraint failed: urls.code", table |-> urls]
    ELSE [error |-> "",
          table |-> urls \cup { [code |-> code, long_url |-> long_url,
                                 created_at |-> datetimeNow,
                                 expiry_at |-> expiry_at,
                                 last_accessed |-> NullTime, clicks |-> 0] }]

\* Mutant: the WHERE clause is lost.
findByCode_noWhere(code) == urls

\* SELECT * FROM urls WHERE code = ?
findByCode(code) == {row \in urls : row.code = code}

\* Mutant: the WHERE clause of the update is lost.
updateOnVisit_noWhere(code) ==
  { [row EXCEPT !.clicks = row.clicks + 1, !.last_accessed = datetimeNow] :
      row \in urls }

\* Mutant: the update leaves last_accessed alone.
updateOnVisit_noLastAccessed(code) ==
  { IF row.code = code
      THEN [row EXCEPT !.clicks = row.clicks + 1]
      ELSE row : row \in urls }

\* Mutant: the update also stamps created_at.
updateOnVisit_stampsCreated(code) ==
  { IF row.code = code
      THEN [row EXCEPT !.clicks = row.clicks + 1, !.last_accessed = datetimeNow,
                       !.created_at = datetimeNow]
      ELSE row : row \in urls }

\* UPDATE urls SET clicks = clicks + 1, last_accessed = datetime('now') WHERE code = ?
updateOnVisit(code) ==
  { IF row.code = code
      THEN [row EXCEPT !.clicks = row.clicks + 1, !.last_accessed = datetimeNow]
      ELSE row : row \in urls }

\* INSERT INTO visits (code, ip, user_agent, referrer)
insertVisit(code, ip, user_agent, referrer) ==
  Append(visits, [id |-> Len(visits) + 1, code |-> code, ts |-> datetimeNow,
                  ip |-> ip, user_agent |-> user_agent, referrer |-> referrer])

\* SELECT ts, ip, user_agent, referrer FROM visits WHERE code = ?
getVisits(code) ==
  LET pick(v) == v.code = code
      cols(v) == [ts |-> v.ts, ip |-> v.ip, user_agent |-> v.user_agent,
                  referrer |-> v.referrer]
      sel == SelectSeq(visits, pick)
  IN [i \in 1..Len(sel) |-> cols(sel[i])]

\* Mutant: COUNT(ip), without DISTINCT.
countUniqueIPs_notDistinct(code) ==
  Cardinality({j \in 1..Len(visits) : visits[j].code = code /\ visits[j].ip # NULL})

\* SELECT COUNT(DISTINCT ip) FROM visits WHERE code = ?  (NULLs are not counted)
countUniqueIPs(code) ==
  Cardinality({visits[i].ip : i \in {j \in 1..Len(visits) :
                  visits[j].code = code /\ visits[j].ip # NULL}})

\* new Date(Date.now() + minutes * 60 * 1000)
computeExpiry(minutes) == now + minutes * 60 * 1000

\* Mutant: a record is already expired at the instant of its expiry.
isExpired_inclusive(row) == row.expiry_at <= now

\* Mutant: the comparison is turned around.
isExpired_flipped(row) == row.expiry_at > now

\* new Date(row.expiry_at) < new Date()
isExpired(row) == row.expiry_at < now

\* ---------------------------------------------------------------- middleware
\* randomUUID(): an identifier that no request being processed carries.
\* Identifiers are only ever compared for equality, so the first free one
\* stands for any of them.
LogIDs == 1..(MaxVisits + 1)
InUse == {q.req.logID : q \in BagToSet(inflight)}
randomUUID == CHOOSE id \in LogIDs \ InUse : \A other \in LogIDs \ InUse : id <= other

\* loggingMiddleware(req, res, next): the log line is appended inside a try
\* whose catch swallows the error; then req.logID is set and next() is called.
loggingMiddleware(appendFails) ==
  [req |-> [logID |-> randomUUID, logged |-> ~appendFails], next |-> TRUE]

\* Mutant: the handlers leave req.logID out of the JSON they send.
Json_noLogID(r, req) == [r EXCEPT !.req = req]

\* res.status(..).json({ logID: req.logID, ... })
Json(r, req) == [r EXCEPT !.req = req, !.logID = req.logID]

\* A response whose content the handler does not write as JSON: the redirect
\* of res.redirect and the answer of the framework to a throw.
Plain(r, req) == [r EXCEPT !.req = req]

\* -------------------------------------------------------------------- Init
Init ==
  /\ urls = {}
  /\ visits = <<>>
  /\ now = 0
  /\ inflight = EmptyBag
  /\ resp = NoResp
  /\ issued = {}
  /\ served = <<>>

\* ----------------------------------------------------------- POST /shorturls
\* Mutant: the test validity > 0 is lost.
validityMinutes_anyInteger(validity) ==
  IF validity.kind = "integer" THEN validity.n ELSE DEFAULT_VALIDITY

\* Number.isInteger(validity) && validity > 0 ? validity : Number(DEFAULT_VALIDITY)
validityMinutes(validity) ==
  IF validity.kind = "integer" /\ validity.n > 0 THEN validity.n ELSE DEFAULT_VALIDITY

\* code = normalizeCode(shortcode); if (!code) code = nanoid(7).toLowerCase()
codeFor(shortcode, nid) ==
  IF normalizeCode(shortcode) = <<>> THEN generateCode(nid) ELSE normalizeCode(shortcode)

\* if (!code): the code comes from nanoid.
UsesNanoid(shortcode) == normalizeCode(shortcode) = <<>>

\* The conditions of the two validation returns.
RejectsUrl(url) == url.text = "" \/ ~isValidHttpUrl(url)
RejectsShortcode(shortcode) ==
  normalizeCode(shortcode) # <<>> /\ ~CodeRegexTest(normalizeCode(shortcode))

\* String(e.message).includes('UNIQUE')
includesUNIQUE(message) == message = "UNIQUE constraint failed: urls.code"

\* Mutant: every error of the insert is taken for a duplicate.
CatchInsert_always409(message, code) ==
  Response("create", 409, "Shortcode already exists.", code, <<"insertUrl">>)

\* catch (e): 409 for the UNIQUE error, 500 for any other.
CatchInsert(message, code) ==
  IF includesUNIQUE(message)
    THEN Response("create", 409, "Shortcode already exists.", code, <<"insertUrl">>)
    ELSE Response("create", 500, "Could not create short URL.", code, <<"insertUrl">>)

\* Mutant: the row is inserted before the shortcode is validated.
PostShortUrlsResult_insertFirst(url, validity, shortcode, nid) ==
  IF RejectsUrl(url)
    THEN [resp |-> Response("create", 400, "Invalid or missing URL.", <<>>, <<>>),
          table |-> urls]
  ELSE
    LET expiry_at == computeExpiry(validityMinutes(validity))
        code == codeFor(shortcode, nid)
        ins == insertUrl(code, url.text, expiry_at)
    IN IF RejectsShortcode(shortcode)
         THEN [resp |-> Response("create", 400,
                          "shortcode must be 4-32 chars, alnum/-,_ only.",
                          <<>>, <<"insertUrl">>),
               table |-> ins.table]
       ELSE IF ins.error = ""
         THEN [resp |-> [Response("create", 201, "", code, <<"insertUrl">>)
                           EXCEPT !.location = BASE_URL, !.expiry = expiry_at,
                                  !.generated = UsesNanoid(shortcode)],
               table |-> ins.table]
         ELSE [resp |-> [CatchInsert(ins.error, code)
                           EXCEPT !.generated = UsesNanoid(shortcode)],
               table |-> ins.table]

\* Mutant: when a generated code is taken, another code is tried.
PostShortUrlsResult_regenerates(url, validity, shortcode, nid) ==
  IF RejectsUrl(url)
    THEN [resp |-> Response("create", 400, "Invalid or missing URL.", <<>>, <<>>),
          table |-> urls]
  ELSE IF RejectsShortcode(shortcode)
    THEN [resp |-> Response("create", 400,
                     "shortcode must be 4-32 chars, alnum/-,_ only.", <<>>, <<>>),
          table |-> urls]
  ELSE
    LET expiry_at == computeExpiry(validityMinutes(validity))
        code == codeFor(shortcode, nid)
        ins == insertUrl(code, url.text, expiry_at)
        other == [code EXCEPT ![1] = "h"]
        again == insertUrl(other, url.text, expiry_at)
    IN IF ins.error = ""
         THEN [resp |-> [Response("create", 201, "", code, <<"insertUrl">>)
                           EXCEPT !.location = BASE_URL, !.expiry = expiry_at,
                                  !.generated = UsesNanoid(shortcode)],
               table |-> ins.table]
       ELSE IF UsesNanoid(shortcode) /\ again.error = ""
         THEN [resp |-> [Response("create", 201, "", other,
                                  <<"insertUrl", "insertUrl">>)
                           EXCEPT !.location = BASE_URL, !.expiry = expiry_at,
                                  !.generated = TRUE],
               table |-> again.table]
         ELSE [resp |-> [CatchInsert(ins.error, code)
                           EXCEPT !.generated = UsesNanoid(shortcode)],
               table |-> ins.table]

\* The handler: what it answers, and the urls table it leaves.
\* nid is what nanoid(7) returns when it is called.
PostShortUrlsResult(url, validity, shortcode, nid) ==
  IF RejectsUrl(url)
    THEN [resp |-> Response("create", 400, "Invalid or missing URL.", <<>>, <<>>),
          table |-> urls]
  ELSE IF RejectsShortcode(shortcode)
    THEN [resp |-> Response("create", 400,
                     "shortcode must be 4-32 chars, alnum/-,_ only.", <<>>, <<>>),
          table |-> urls]
  ELSE
    LET expiry_at == computeExpiry(validityMinutes(validity))
        code == codeFor(shortcode, nid)
        ins == insertUrl(code, url.text, expiry_at)
    IN IF ins.error = ""
         THEN [resp |-> [Response("create", 201, "", code, <<"insertUrl">>)
                           EXCEPT !.location = BASE_URL, !.expiry = expiry_at,
                                  !.generated = UsesNanoid(shortcode)],
               table |-> ins.table]
         ELSE [resp |-> [CatchInsert(ins.error, code)
                           EXCEPT !.generated = UsesNanoid(shortcode)],
               table |-> ins.table]

PostShortUrls(url, validity, shortcode, nid, appendFails) ==
  LET mw == loggingMiddleware(appendFails)
      res == PostShortUrlsResult(url, validity, shortcode, nid)
  IN /\ resp = NoResp
     /\ mw.next
     /\ urls' = res.table
     /\ resp' = Json(res.resp, mw.req)
     /\ issued' = IF res.resp.status = 201
                    THEN issued \cup {[code |-> res.resp.code, url |-> url.text,
                                       expiry |-> res.resp.expiry]}
                    ELSE issued
     /\ UNCHANGED <<visits, now, inflight, served>>

\* insertUrl.run throws an error that is not the UNIQUE one: nothing is written.
PostShortUrlsStorageError(url, shortcode, nid) ==
  /\ resp = NoResp
  /\ loggingMiddleware(FALSE).next
  /\ ~RejectsUrl(url)
  /\ ~RejectsShortcode(shortcode)
  /\ resp' = Json([CatchInsert("disk I/O error", codeFor(shortcode, nid))
                     EXCEPT !.generated = UsesNanoid(shortcode)],
                  loggingMiddleware(FALSE).req)
  /\ UNCHANGED <<urls, visits, now, inflight, issued, served>>

\* ----------------------------------------------------------------- GET /:code
\* From the request to the expiry check: findByCode.get, the 404 and the 410.
\* With status 0 the handler goes on to updateOnVisit with the row it read.
GetCodeLookup(param) ==
  LET code == normalizeCode(param)
      rows == findByCode(code)
  IN IF rows = {}
       THEN [resp |-> Response("redirect", 404, "Shortcode not found.",
                               code, <<"findByCode">>),
             row |-> NoRow]
     ELSE LET row == CHOOSE row \in rows : TRUE
          IN IF isExpired(row)
               THEN [resp |-> Response("redirect", 410, "Short link expired.",
                                       code, <<"findByCode">>),
                     row |-> row]
               ELSE [resp |-> Response("redirect", 0, "", code, <<"findByCode">>),
                     row |-> row]

\* Mutant: the redirect goes to the service's own address, not to row.long_url.
RedirectResponse_baseUrl(q) ==
  [Response("redirect", 302, "", q.code,
            <<"findByCode", "updateOnVisit", "insertVisit">>)
     EXCEPT !.location = BASE_URL]

\* res.redirect(row.long_url), by the handler q that has run its three statements.
RedirectResponse(q) ==
  [Response("redirect", 302, "", q.code,
            <<"findByCode", "updateOnVisit", "insertVisit">>)
     EXCEPT !.location = q.row.long_url]

\* The increments of clicks applied so far, and those a handler is about to make.
RECURSIVE SumClicks(_)
SumClicks(rows) ==
  IF rows = {} THEN 0
  ELSE LET row == CHOOSE row \in rows : TRUE
       IN row.clicks + SumClicks(rows \ {row})

Handler(pc, code, row, ctx, req) ==
  [pc |-> pc, code |-> code, row |-> row, ctx |-> ctx, req |-> req]
At(pc) == {q \in BagToSet(inflight) : q.pc = pc}
Waiting(pc) == BagCardinality([q \in At(pc) |-> CopiesIn(q, inflight)])
Enter(q) == inflight (+) SetToBag({q})
Leave(q) == inflight (-) SetToBag({q})

GetCode(param, ctx, appendFails) ==
  LET mw == loggingMiddleware(appendFails)
      res == GetCodeLookup(param)
  IN /\ resp = NoResp
     /\ mw.next
     /\ IF res.resp.status = 0
          THEN /\ SumClicks(urls) + Waiting("updateOnVisit") < MaxVisits
               /\ inflight' = Enter(Handler("updateOnVisit", res.resp.code,
                                            res.row, ctx, mw.req))
               /\ UNCHANGED resp
          ELSE /\ resp' = Json(res.resp, mw.req)
               /\ UNCHANGED inflight
     /\ UNCHANGED <<urls, visits, now, issued, served>>

\* Mutant: the increment is computed from the row the handler read
\* (SET clicks = row.clicks + 1), not inside the UPDATE statement.
GetCodeUpdate_readModifyWrite(q) ==
  /\ resp = NoResp
  /\ q \in At("updateOnVisit")
  /\ urls' = { IF row.code = q.code
                 THEN [row EXCEPT !.clicks = q.row.clicks + 1,
                                  !.last_accessed = datetimeNow]
                 ELSE row : row \in urls }
  /\ inflight' = Leave(q) (+) SetToBag({[q EXCEPT !.pc = "insertVisit"]})
  /\ UNCHANGED <<visits, now, resp, issued, served>>

\* updateOnVisit.run(code)
GetCodeUpdate(q) ==
  /\ resp = NoResp
  /\ q \in At("updateOnVisit")
  /\ urls' = updateOnVisit(q.code)
  /\ inflight' = Leave(q) (+) SetToBag({[q EXCEPT !.pc = "insertVisit"]})
  /\ UNCHANGED <<visits, now, resp, issued, served>>

\* insertVisit.run(code, req.ip, ...); return res.redirect(row.long_url)
GetCodeRedirect(q) ==
  /\ resp = NoResp
  /\ q \in At("insertVisit")
  /\ visits' = insertVisit(q.code, q.ctx.ip, q.ctx.user_agent, q.ctx.referrer)
  /\ resp' = Plain(RedirectResponse(q), q.req)
  /\ served' = Append(served, [code |-> q.code, ip |-> q.ctx.ip])
  /\ inflight' = Leave(q)
  /\ UNCHANGED <<urls, now, issued>>

\* A throw out of the handler, which has no try: the framework answers 500.
Thrown(q, stmts) == Response("redirect", 500, "Internal Server Error", q.code, stmts)

\* updateOnVisit.run throws.
GetCodeUpdateThrows(q) ==
  /\ resp = NoResp
  /\ q \in At("updateOnVisit")
  /\ resp' = Plain(Thrown(q, <<"findByCode", "updateOnVisit">>), q.req)
  /\ inflight' = Leave(q)
  /\ UNCHANGED <<urls, visits, now, issued, served>>

\* insertVisit.run throws, after updateOnVisit.run has been applied.
GetCodeInsertThrows(q) ==
  /\ resp = NoResp
  /\ q \in At("insertVisit")
  /\ resp' = Plain(Thrown(q, <<"findByCode", "updateOnVisit", "insertVisit">>), q.req)
  /\ inflight' = Leave(q)
  /\ UNCHANGED <<urls, visits, now, issued, served>>

\* ------------------------------------------------------- GET /shorturls/:code
\* Mutant: the stats handler refuses an expired record as the redirect does.
GetStatsResponse_refusesExpired(param) ==
  LET code == normalizeCode(param)
      rows == findByCode(code)
  IN IF rows = {}
       THEN Response("stats", 404, "Shortcode not found.", code, <<"findByCode">>)
     ELSE LET row == CHOOSE row \in rows : TRUE
          IN IF isExpired(row)
               THEN Response("stats", 410, "Short link expired.", code,
                             <<"findByCode">>)
               ELSE [Response("stats", 200, "", code,
                              <<"findByCode", "getVisits", "countUniqueIPs">>)
                       EXCEPT !.body = << [code |-> code,
                                           longUrl |-> row.long_url,
                                           createdAt |-> row.created_at,
                                           expiryAt |-> row.expiry_at,
                                           totalClicks |-> row.clicks,
                                           uniqueVisitors |-> countUniqueIPs(code),
                                           detailedClicks |-> getVisits(code)] >>]

GetStatsResponse(param) ==
  LET code == normalizeCode(param)
      rows == findByCode(code)
  IN IF rows = {}
       THEN Response("stats", 404, "Shortcode not found.", code, <<"findByCode">>)
     ELSE LET row == CHOOSE row \in rows : TRUE
          IN [Response("stats", 200, "", code,
                       <<"findByCode", "getVisits", "countUniqueIPs">>)
                EXCEPT !.body = << [code |-> code,
                                    longUrl |-> row.long_url,
                                    createdAt |-> row.created_at,
                                    expiryAt |-> row.expiry_at,
                                    totalClicks |-> row.clicks,
                                    uniqueVisitors |-> countUniqueIPs(code),
                                    detailedClicks |-> getVisits(code)] >>]

GetStats(param, appendFails) ==
  /\ resp = NoResp
  /\ loggingMiddleware(appendFails).next
  /\ resp' = Json(GetStatsResponse(param), loggingMiddleware(appendFails).req)
  /\ UNCHANGED <<urls, visits, now, inflight, issued, served>>

\* ---------------------------------------------------------------- event loop
\* The handlers run one at a time on the event loop: a handler's response is
\* written out before the next handler step runs.
Send ==
  /\ resp # NoResp
  /\ resp' = NoResp
  /\ UNCHANGED <<urls, visits, now, inflight, issued, served>>

\* ---------------------------------------------------------------------- time
\* A handler is synchronous: the clock moves by milliseconds while it runs,
\* and by a whole tick only between handlers.
Tick ==
  /\ resp = NoResp
  /\ inflight = EmptyBag
  /\ now < MaxTicks * TickMs
  /\ now' = now + TickMs
  /\ UNCHANGED <<urls, visits, inflight, resp, issued, served>>

\* ------------------------------------------------------------- specifications
\* The create requests.  shortcode is read only when the url is accepted,
\* validity and nanoid(7) only by a request that passes validation, and
\* nanoid(7) only when the normalized shortcode is empty: requests that differ
\* in a value the handler does not read are one request.
ShortcodeRead(url) == IF RejectsUrl(url) THEN {<<>>} ELSE ShortcodeInputs
ValidityRead(url, shortcode) ==
  IF RejectsUrl(url) \/ RejectsShortcode(shortcode)
    THEN {[kind |-> "undefined", n |-> 0]} ELSE ValidityInputs
NanoidRead(url, shortcode) ==
  IF RejectsUrl(url) \/ normalizeCode(shortcode) # <<>>
    THEN {CHOOSE nid \in NanoidOutputs : TRUE} ELSE NanoidOutputs
CreateInputs ==
  UNION { UNION { {<<url, validity, shortcode, nid>> :
                     validity \in ValidityRead(url, shortcode),
                     nid \in NanoidRead(url, shortcode)} :
                  shortcode \in ShortcodeRead(url) } :
          url \in UrlInputs }

Create == \E in \in CreateInputs : PostShortUrls(in[1], in[2], in[3], in[4], FALSE)
Redirect == \E param \in CodeParams, ctx \in VisitorContexts : GetCode(param, ctx, FALSE)
RedirectUpdate == \E q \in BagToSet(inflight) : GetCodeUpdate(q)
RedirectServe == \E q \in BagToSet(inflight) : GetCodeRedirect(q)
Stats == \E param \in CodeParams : GetStats(param, FALSE)

CreateStorageError == \E in \in {<<c[1], c[3], c[4]>> : c \in CreateInputs} :
                        PostShortUrlsStorageError(in[1], in[2], in[3])
RedirectUpdateThrows == \E q \in BagToSet(inflight) : GetCodeUpdateThrows(q)
RedirectInsertThrows == \E q \in BagToSet(inflight) : GetCodeInsertThrows(q)

\* The append to the log file throws inside the middleware.
CreateUnlogged == \E in \in CreateInputs : PostShortUrls(in[1], in[2], in[3], in[4], TRUE)
RedirectUnlogged == \E param \in CodeParams, ctx \in VisitorContexts : GetCode(param, ctx, TRUE)
StatsUnlogged == \E param \in CodeParams : GetStats(param, TRUE)

\* The store statements succeed (or fail on the primary key).
Next ==
  \/ Create
  \/ Redirect
  \/ RedirectUpdate
  \/ RedirectServe
  \/ Stats
  \/ Send
  \/ Tick

Spec == Init /\ [][Next]_vars

\* A store write may also throw a storage error.
NextFault ==
  \/ Next
  \/ CreateStorageError
  \/ RedirectUpdateThrows
  \/ RedirectInsertThrows

SpecFault == Init /\ [][NextFault]_vars

\* The log file cannot be written: every append of the middleware throws.
NextLog ==
  \/ CreateUnlogged
  \/ RedirectUnlogged
  \/ RedirectUpdate
  \/ RedirectServe
  \/ StatsUnlogged
  \/ Send
  \/ Tick

SpecLog == Init /\ [][NextLog]_vars

\* ===================================================================== claims
\* What the claims read off the store directly.
RowsOf(code) == {row \in urls : row.code = code}
Stored(code) == RowsOf(code) # {}
ServedFor(code) == {i \in 1..Len(served) : served[i].code = code}
InflightFor(code) == {q \in BagToSet(inflight) : q.code = code}
ValidUrl(url) == url.parses /\ url.protocol \in {"http:", "https:"} /\ url.text # ""

\* C1: round trip.  In every reachable state a create request with a valid
\* http/https url, whose shortcode is absent or well-formed and whose code
\* (explicit or generated) is free, is answered 201 and stores the url as
\* submitted; and for every code a 201 has returned, a redirect request made
\* while now <= expiry is not refused (no 404, no 410), the handler holds the
\* url that was submitted, and every 302 sent for that code carries exactly it.
C1_RoundTrip ==
  /\ \A in \in CreateInputs :
       LET res == PostShortUrlsResult(in[1], in[2], in[3], in[4])
       IN ValidUrl(in[1]) /\ ~RejectsShortcode(in[3])
            /\ ~Stored(codeFor(in[3], in[4]))
          => /\ res.resp.status = 201
             /\ \E row \in res.table :
                  row.code = res.resp.code /\ row.long_url = in[1].text
  /\ \A i \in issued :
       /\ \A param \in CodeParams :
            normalizeCode(param) = i.code /\ now <= i.expiry
            => /\ GetCodeLookup(param).resp.status = 0
               /\ GetCodeLookup(param).row.long_url = i.url
       /\ \A q \in InflightFor(i.code) : RedirectResponse(q).location = i.url
       /\ resp.op = "redirect" /\ resp.code = i.code
          => \/ resp.status = 302 /\ resp.location = i.url
             \/ resp.status = 410 /\ i.expiry < now

\* A 302 carrying the submitted url is being sent for a generated code, at a
\* later time than the creation, after a visit to another code.
C1_Witness ==
  /\ resp.op = "redirect" /\ resp.status = 302
  /\ Len(resp.code) = NanoidLen
  /\ \E i \in issued : i.code = resp.code /\ i.url = resp.location
  /\ \E row \in urls : row.code = resp.code /\ row.created_at < now
  /\ \E i \in 1..Len(visits) : visits[i].code # resp.code

\* C2: a create request that names an explicit shortcode already in the Link
\* Store is answered 409 and leaves the urls table as it is; the step that
\* sends a 409 changes no row (longUrl, createdAt, expiryAt, lastAccessedAt,
\* clicks), adds no row and writes no visit event.
C2_DuplicateRejected ==
  /\ [](\A in \in CreateInputs :
          LET code == normalizeCode(in[3])
              res == PostShortUrlsResult(in[1], in[2], in[3], in[4])
          IN ValidUrl(in[1]) /\ code # <<>> /\ ~RejectsShortcode(in[3]) /\ Stored(code)
             => /\ res.resp.status = 409
                /\ res.resp.error = "Shortcode already exists."
                /\ res.table = urls)
  /\ [][resp' # resp /\ resp'.op = "create" /\ resp'.status = 409
        => UNCHANGED <<urls, visits, issued>>]_vars

\* A 409 is being sent for an explicit shortcode whose record has been visited.
C2_Witness ==
  /\ resp.op = "create" /\ resp.status = 409
  /\ Len(resp.code) = MinCodeLen
  /\ \E row \in RowsOf(resp.code) : row.clicks >= 1 /\ row.last_accessed # NullTime
  /\ visits # <<>>

\* C3: a redirect request for a record whose expiryAt is in the past is
\* answered 410, and the step that sends the 410 leaves the whole state as it
\* is: no visit event, no increment of clicks, no lastAccessedAt, no deletion.
C3_ExpiredRefused ==
  /\ [](\A param \in CodeParams :
          \A row \in RowsOf(normalizeCode(param)) :
            row.expiry_at < now
            => /\ GetCodeLookup(param).resp.status = 410
               /\ GetCodeLookup(param).resp.stmts = <<"findByCode">>)
  /\ [][resp' # resp /\ resp'.op = "redirect" /\ resp'.status = 410
        => UNCHANGED <<urls, visits, inflight, issued, served>>]_vars

\* A 410 is being sent for a record that was visited before it expired.
C3_Witness ==
  /\ resp.op = "redirect" /\ resp.status = 410
  /\ \E row \in RowsOf(resp.code) : row.expiry_at < now /\ row.clicks >= 1

\* C4: when no redirect for the code is between its store statements, a
\* stats response for it reports as totalClicks the number N of redirects
\* answered 302 for that code and as uniqueVisitors the number K of distinct
\* non-null IPs they came from.
C4_StatsCounts ==
  resp.op = "stats" /\ resp.status = 200 /\ InflightFor(resp.code) = {}
  => /\ resp.body[1].totalClicks = Cardinality(ServedFor(resp.code))
     /\ resp.body[1].uniqueVisitors =
          Cardinality({served[i].ip : i \in ServedFor(resp.code)} \ {NULL})

\* Stats after two redirects of one code from one IP (N = 2, K = 1).
C4_Witness ==
  /\ resp.op = "stats" /\ resp.status = 200
  /\ resp.body[1].totalClicks = 2
  /\ resp.body[1].uniqueVisitors = 1
  /\ Cardinality(ServedFor(resp.code)) = 2

\* C5: for a code that is not in the Link Store both the redirect request and
\* the stats request are answered 404, after the lookup alone, and the step
\* that sends a 404 writes nothing to the Link Store or the Visit Ledger.
C5_NotFound ==
  /\ [](\A param \in CodeParams :
          ~Stored(normalizeCode(param))
          => /\ GetCodeLookup(param).resp.status = 404
             /\ GetCodeLookup(param).resp.stmts = <<"findByCode">>
             /\ GetStatsResponse(param).status = 404
             /\ GetStatsResponse(param).stmts = <<"findByCode">>)
  /\ [][resp' # resp /\ resp'.status = 404
        => UNCHANGED <<urls, visits, inflight, issued, served>>]_vars

\* A redirect request is being answered 404 while the store holds other records
\* and visits.
C5_Witness ==
  /\ resp.op = "redirect" /\ resp.status = 404
  /\ ~Stored(resp.code)
  /\ urls # {} /\ visits # <<>>

\* C6: a storage failure while the visit is recorded does not keep the
\* redirect from being served: every redirect request for an existing record
\* that has not expired (every one not answered 404 or 410) is answered with a
\* redirect to the stored long URL.
C6_RedirectDespiteStorageError ==
  resp.op = "redirect" /\ resp.status \notin {404, 410}
  => /\ resp.status = 302
     /\ \E row \in RowsOf(resp.code) : resp.location = row.long_url

\* C7: no lost updates.  In every interleaving of the store statements of
\* redirects, a record's clicks is the number of redirects answered 302 for its
\* code plus the number of redirect handlers for its code that have run
\* updateOnVisit and not yet answered; with none in flight, clicks is exactly
\* the number of redirects that succeeded.
C7_NoLostUpdate ==
  \A row \in urls :
    row.clicks = Cardinality(ServedFor(row.code))
                 + BagCardinality([q \in {h \in InflightFor(row.code) :
                                            h.pc = "insertVisit"}
                                     |-> CopiesIn(q, inflight)])

\* Two redirects for one code are in flight together, both past updateOnVisit.
C7_Witness ==
  \E row \in urls :
    /\ row.clicks = 2
    /\ BagCardinality([q \in {h \in InflightFor(row.code) : h.pc = "insertVisit"}
                         |-> CopiesIn(q, inflight)]) = 2

\* C8: of the create requests that carry one explicit shortcode at most one is
\* answered 201, every other one is answered 409, and the Link Store holds
\* exactly one record for the code, with the longUrl and the expiryAt of the
\* request that was answered 201.
C8_OneWinner ==
  /\ \A row \in urls : Cardinality(RowsOf(row.code)) = 1
  /\ \A i \in issued :
       /\ Cardinality({j \in issued : j.code = i.code}) = 1
       /\ \E row \in RowsOf(i.code) :
            row.long_url = i.url /\ row.expiry_at = i.expiry
  /\ \A in \in CreateInputs :
       ValidUrl(in[1]) /\ normalizeCode(in[3]) # <<>> /\ ~RejectsShortcode(in[3])
         /\ (\E i \in issued : i.code = normalizeCode(in[3]))
       => PostShortUrlsResult(in[1], in[2], in[3], in[4]).resp.status = 409
  /\ resp.op = "create" /\ resp.status = 409
     => \E i \in issued : i.code = resp.code

\* The loser of two creates that arrived together is being answered 409: the
\* winner's record was inserted at this very clock value and is untouched.
C8_Witness ==
  /\ resp.op = "create" /\ resp.status = 409
  /\ Len(resp.code) = MinCodeLen
  /\ now > 0
  /\ \E row \in RowsOf(resp.code) :
       row.created_at = datetimeNow /\ row.clicks = 0

\* C9: a create request with an invalid or missing url, or with a malformed
\* shortcode, is answered 400 before any store statement has run, and the step
\* that sends the 400 leaves the Link Store and the Visit Ledger as they are.
C9_RejectedBeforeStorage ==
  /\ [](\A in \in CreateInputs :
          LET res == PostShortUrlsResult(in[1], in[2], in[3], in[4])
          IN ~ValidUrl(in[1])
               \/ (normalizeCode(in[3]) # <<>>
                     /\ ~CodeRegexTest(normalizeCode(in[3])))
             => /\ res.resp.status = 400
                /\ res.resp.stmts = <<>>
                /\ res.table = urls)
  /\ [][resp' # resp /\ resp'.op = "create" /\ resp'.status = 400
        => UNCHANGED <<urls, visits, inflight, issued, served>>]_vars

\* A create with a malformed shortcode is being answered 400 while the store
\* holds records and visits.
C9_Witness ==
  /\ resp.op = "create" /\ resp.status = 400
  /\ resp.error = "shortcode must be 4-32 chars, alnum/-,_ only."
  /\ urls # {} /\ visits # <<>>

\* C10 as stated: no two of the four error kinds of a create request produce
\* the same status: the status of the error response being sent is the status
\* of no create request that fails with another error.
C10_DistinctStatuses ==
  resp.op = "create" /\ resp.status # 201
  => \A in \in CreateInputs :
       LET other == PostShortUrlsResult(in[1], in[2], in[3], in[4]).resp
       IN other.status # 201 /\ other.error # resp.error
          => other.status # resp.status

\* C10, amended: an invalid or missing url and a malformed shortcode are both
\* answered 400, each with its own error text; a shortcode already taken is
\* answered 409; a storage failure of the insert is answered 500.
C10_ErrorStatuses ==
  /\ \A in \in CreateInputs :
       LET res == PostShortUrlsResult(in[1], in[2], in[3], in[4]).resp
       IN /\ ~ValidUrl(in[1])
             => res.status = 400 /\ res.error = "Invalid or missing URL."
          /\ ValidUrl(in[1]) /\ normalizeCode(in[3]) # <<>>
               /\ ~CodeRegexTest(normalizeCode(in[3]))
             => /\ res.status = 400
                /\ res.error = "shortcode must be 4-32 chars, alnum/-,_ only."
          /\ ValidUrl(in[1]) /\ ~RejectsShortcode(in[3])
               /\ Stored(codeFor(in[3], in[4]))
             => res.status = 409 /\ res.error = "Shortcode already exists."
  /\ resp.op = "create" /\ resp.stmts = <<"insertUrl">> /\ resp.status # 201
     => /\ resp.status \in {409, 500}
        /\ resp.status = 409 => Stored(resp.code)
        /\ ~Stored(resp.code)
           => resp.status = 500 /\ resp.error = "Could not create short URL."

\* The insert of a free code has failed and 500 is being sent.
C10_Witness ==
  /\ resp.op = "create" /\ resp.status = 500
  /\ ~Stored(resp.code)
  /\ urls # {}

\* C11: in every reachable state every record of the Link Store has
\* expiryAt > createdAt, and a create request that is answered 201 stores
\* expiryAt = now + validity, the validity being the supplied value when that
\* is a positive integer and the configured default for every other value
\* (absent, zero, negative, non-integer, not a number).
C11_ExpiryAfterCreation ==
  /\ \A row \in urls : row.expiry_at > row.created_at
  /\ \A in \in CreateInputs :
       LET res == PostShortUrlsResult(in[1], in[2], in[3], in[4])
           minutes == IF in[2].kind = "integer" /\ in[2].n >= 1
                        THEN in[2].n ELSE DEFAULT_VALIDITY
       IN res.resp.status = 201
          => /\ res.resp.expiry = now + minutes * 60 * 1000
             /\ \E row \in res.table :
                  /\ row.code = res.resp.code
                  /\ row.expiry_at = res.resp.expiry
                  /\ row.expiry_at > row.created_at

\* A 201 with the default validity is being sent, later than time 0, while the
\* store holds a record created with a supplied validity of one minute.
C11_Witness ==
  /\ resp.op = "create" /\ resp.status = 201
  /\ now > 0
  /\ resp.expiry = now + DEFAULT_VALIDITY * 60 * 1000
  /\ \E row \in urls : row.expiry_at = row.created_at + 60 * 1000

\* C12: in every step, also one in which a store write fails, every record
\* of the Link Store is still there afterwards with the same code, longUrl,
\* createdAt and expiryAt and with clicks not smaller than before, and the
\* Visit Ledger afterwards begins with the ledger before: visit events are
\* only appended, never changed or removed.
C12_RecordsImmutable ==
  [][/\ \A row \in urls :
          \E next \in urls' :
            /\ next.code = row.code
            /\ next.long_url = row.long_url
            /\ next.created_at = row.created_at
            /\ next.expiry_at = row.expiry_at
            /\ next.clicks >= row.clicks
     /\ Len(visits') >= Len(visits)
     /\ SubSeq(visits', 1, Len(visits)) = visits]_vars

\* Two records, one of them visited after the clock has advanced past its
\* creation, and a ledger of two visit events.
C12_Witness ==
  /\ Cardinality(urls) = 2
  /\ Len(visits) = 2
  /\ \E row \in urls :
       row.clicks >= 1 /\ row.created_at < row.last_accessed

\* C13: expiry is decided at each redirect against the clock.  Every record
\* was created with a validity of V minutes (a supplied positive integer or
\* the default) and expiryAt = createdAt + V minutes; a redirect request for it
\* goes on to the redirect while now is within V minutes of the creation and
\* is answered 410 once now is later.  A 410 is only sent for a record whose
\* expiryAt is past, and in every step a record whose expiryAt is past stays
\* so and keeps its clicks and lastAccessedAt: after one 410 for a code every
\* later redirect for it is answered 410 and its clicks is frozen.
C13_LazyExpiry ==
  /\ [](/\ \A param \in CodeParams :
           \A row \in RowsOf(normalizeCode(param)) :
             \E V \in {v.n : v \in {w \in ValidityInputs :
                                       w.kind = "integer" /\ w.n >= 1}}
                         \cup {DEFAULT_VALIDITY} :
               /\ row.expiry_at = row.created_at + V * 60 * 1000
               /\ now <= row.created_at + V * 60 * 1000
                  => GetCodeLookup(param).resp.status = 0
               /\ now > row.created_at + V * 60 * 1000
                  => GetCodeLookup(param).resp.status = 410
        /\ resp.op = "redirect" /\ resp.status = 410
           => \E row \in RowsOf(resp.code) : row.expiry_at < now
        /\ \A q \in BagToSet(inflight) :
             \A row \in RowsOf(q.code) : row.expiry_at >= now)
  /\ [][\A row \in urls :
          row.expiry_at < now
          => /\ now' >= now
             /\ \E next \in urls' :
                  /\ next.code = row.code
                  /\ next.expiry_at = row.expiry_at
                  /\ next.clicks = row.clicks
                  /\ next.last_accessed = row.last_accessed]_vars

\* A 410 is being sent for a record created with a validity of one minute,
\* while another record, created with the default validity, is exactly at its
\* expiry and has just been redirected to.
C13_Witness ==
  /\ resp.op = "redirect" /\ resp.status = 410
  /\ \E row \in RowsOf(resp.code) :
       row.expiry_at = row.created_at + 60 * 1000 /\ row.expiry_at < now
  /\ \E other \in urls :
       /\ other.expiry_at = now
       /\ other.clicks >= 1
       /\ other.last_accessed = now

\* C14: whenever no redirect is between its store statements and no response
\* is being sent, also after a redirect in which a store write failed, each
\* record's clicks equals the number of visit events in the ledger that carry
\* its code.
C14_ClicksMatchLedger ==
  inflight = EmptyBag /\ resp = NoResp
  => \A row \in urls :
       row.clicks = Cardinality({i \in 1..Len(visits) : visits[i].code = row.code})

\* C15: the effect of a successful redirect for code c.  A step that changes
\* a record changes only c's record, of a redirect that has passed the lookup:
\* clicks grows by exactly 1 and lastAccessedAt becomes the current time, its
\* longUrl, createdAt and expiryAt, every other record and the ledger stay as
\* they are.  The step that sends the 302 appends exactly one visit event, for
\* c, carrying the ip, user agent and referrer of that request, and leaves all
\* records and all earlier visit events as they are; the ledger changes in no
\* other step.  While a 302 for c is being sent, c's clicks counts the visit
\* events of c and the redirects for c still before their append.
C15_RedirectEffect ==
  /\ [][urls' # urls /\ Cardinality(urls') = Cardinality(urls)
        => \E q \in BagToSet(inflight) :
             /\ q.pc = "updateOnVisit"
             /\ inflight' = Leave(q) (+) SetToBag({[q EXCEPT !.pc = "insertVisit"]})
             /\ visits' = visits
             /\ \A row \in urls :
                  IF row.code = q.code
                    THEN [row EXCEPT !.clicks = row.clicks + 1,
                                     !.last_accessed = (now \div 1000) * 1000]
                           \in urls'
                    ELSE row \in urls']_vars
  /\ [][resp' # resp /\ resp'.status = 302
        => \E q \in BagToSet(inflight) :
             /\ q.pc = "insertVisit" /\ q.code = resp'.code
             /\ inflight' = Leave(q)
             /\ urls' = urls
             /\ Len(visits') = Len(visits) + 1
             /\ SubSeq(visits', 1, Len(visits)) = visits
             /\ visits'[Len(visits')].code = q.code
             /\ visits'[Len(visits')].ip = q.ctx.ip
             /\ visits'[Len(visits')].user_agent = q.ctx.user_agent
             /\ visits'[Len(visits')].referrer = q.ctx.referrer]_vars
  /\ [][visits' # visits => resp' # resp /\ resp'.status = 302]_vars
  /\ [](resp.status = 302
        => \A row \in RowsOf(resp.code) :
             row.clicks =
               Cardinality({i \in 1..Len(visits) : visits[i].code = resp.code})
               + Cardinality({q \in InflightFor(resp.code) : q.pc = "insertVisit"}))

\* A 302 is being sent for a record visited once, after a visit to another
\* record: two records and a ledger of two events.
C15_Witness ==
  /\ resp.op = "redirect" /\ resp.status = 302
  /\ Cardinality(urls) = 2
  /\ \E row \in RowsOf(resp.code) : row.clicks = 1
  /\ Len(visits) = 2
  /\ visits[1].code # resp.code
  /\ visits[2].code = resp.code
  /\ visits[2].referrer # NULL

\* The trimmed, lowercased form of every string a request may carry.
Folded == [input \in CodeInputs |-> toLowerCase(trim(input))]

\* C16: codes are case-normalized on every path.  Every code in the Link
\* Store equals its own trimmed, lowercased form; a create request with a
\* valid url whose explicit shortcode has the trimmed, lowercased form of a
\* stored code (it differs from it at most in letter case and surrounding
\* whitespace) is answered 409 and leaves the store as it is; and two redirect
\* requests, or two stats requests, whose codes differ only in letter case get
\* the same answer from the same record.
C16_CodesNormalized ==
  /\ \A row \in urls : row.code = toLowerCase(trim(row.code))
  /\ \A in \in CreateInputs :
       LET res == PostShortUrlsResult(in[1], in[2], in[3], in[4])
       IN ValidUrl(in[1]) /\ Folded[in[3]] # <<>>
            /\ (\E row \in urls : row.code = Folded[in[3]])
          => /\ res.resp.status = 409
             /\ res.resp.code = Folded[in[3]]
             /\ res.table = urls
  /\ \A p1 \in CodeParams, p2 \in CodeParams :
       Folded[p1] = Folded[p2]
       => /\ GetCodeLookup(p1) = GetCodeLookup(p2)
          /\ GetStatsResponse(p1) = GetStatsResponse(p2)
  /\ \A p \in CodeParams :
       /\ GetCodeLookup(p).resp.status # 404
          => GetCodeLookup(p).row \in urls /\ GetCodeLookup(p).row.code = Folded[p]
       /\ GetStatsResponse(p).status = 200
          => GetStatsResponse(p).body[1].code = Folded[p]

\* A 409 is being sent for a code that a create request can name in another
\* letter case and with surrounding whitespace, and that a path parameter in
\* upper case resolves to; its record has been redirected to.
C16_Witness ==
  /\ resp.op = "create" /\ resp.status = 409 /\ ~resp.generated
  /\ \E in \in CreateInputs :
       /\ in[3] # Folded[in[3]] /\ Folded[in[3]] = resp.code
       /\ in[3] # trim(in[3])
       /\ PostShortUrlsResult(in[1], in[2], in[3], in[4]).resp.status = 409
  /\ \E p \in CodeParams :
       /\ p # Folded[p] /\ Folded[p] = resp.code
       /\ GetCodeLookup(p).row.clicks >= 1
       /\ GetStatsResponse(p).status = 200

\* What nanoid(7) may return, in lower case.
LowerCased == [nid \in NanoidOutputs |-> [i \in 1..Len(nid) |-> toLowerCaseChar(nid[i])]]

\* C17: a create request with a valid url and no explicit shortcode makes one
\* insert attempt with one generated code.  When the generated code is that of
\* a stored record the request is answered 409 after that single insert and
\* leaves the store as it is; every response to such a request follows exactly
\* one insert statement, and the step that sends its 409 changes no record.
C17_GeneratedCollision ==
  /\ [](/\ \A in \in CreateInputs :
            LET res == PostShortUrlsResult(in[1], in[2], in[3], in[4])
                generated == LowerCased[in[4]]
            IN ValidUrl(in[1]) /\ Folded[in[3]] = <<>>
               => /\ res.resp.generated
                  /\ res.resp.code = generated
                  /\ res.resp.stmts = <<"insertUrl">>
                  /\ Stored(generated)
                     => /\ res.resp.status = 409
                        /\ res.resp.error = "Shortcode already exists."
                        /\ res.table = urls
        /\ resp.op = "create" /\ resp.generated
           => /\ resp.stmts = <<"insertUrl">>
              /\ resp.status \in {201, 409}
              /\ Stored(resp.code))
  /\ [][resp' # resp /\ resp'.op = "create" /\ resp'.generated
          /\ resp'.status = 409
        => UNCHANGED <<urls, visits, inflight, issued, served>>]_vars

\* A 409 is being sent to a create request without shortcode whose generated
\* code is that of a record already redirected to.
C17_Witness ==
  /\ resp.op = "create" /\ resp.status = 409 /\ resp.generated
  /\ Len(resp.code) = NanoidLen
  /\ \E row \in RowsOf(resp.code) : row.clicks >= 1
  /\ \E i \in 1..Len(visits) : visits[i].code = resp.code

\* C18: the stats request is read-only and does not look at the expiry.  For
\* every stored code, expired or not, it is answered 200 with the record's
\* code, longUrl, createdAt, expiryAt and clicks and with the visit events of
\* that code, in ledger order; and the step that sends a stats response
\* changes nothing in the Link Store or the Visit Ledger and starts no
\* redirect.
C18_StatsReadOnly ==
  /\ [](\A param \in CodeParams :
          \A row \in RowsOf(Folded[param]) :
            LET r == GetStatsResponse(param)
                events == SelectSeq(visits, LAMBDA v : v.code = row.code)
            IN /\ r.status = 200
               /\ r.body[1].code = row.code
               /\ r.body[1].longUrl = row.long_url
               /\ r.body[1].createdAt = row.created_at
               /\ r.body[1].expiryAt = row.expiry_at
               /\ r.body[1].totalClicks = row.clicks
               /\ Len(r.body[1].detailedClicks) = Len(events)
               /\ \A k \in 1..Len(events) :
                    /\ r.body[1].detailedClicks[k].ts = events[k].ts
                    /\ r.body[1].detailedClicks[k].ip = events[k].ip
                    /\ r.body[1].detailedClicks[k].user_agent = events[k].user_agent
                    /\ r.body[1].detailedClicks[k].referrer = events[k].referrer)
  /\ [][resp' # resp /\ resp'.op = "stats"
        => UNCHANGED <<urls, visits, now, inflight, issued, served>>]_vars

\* Stats are being sent for a record that has expired after it was visited.
C18_Witness ==
  /\ resp.op = "stats" /\ resp.status = 200
  /\ resp.body[1].expiryAt < now
  /\ resp.body[1].totalClicks >= 1
  /\ Len(resp.body[1].detailedClicks) >= 1
  /\ \E row \in RowsOf(resp.code) : row.clicks = resp.body[1].totalClicks

\* C19: in every reachable state a record's lastAccessedAt is null exactly
\* when its clicks is 0.  A create request answered 201 inserts its record
\* with clicks = 0 and lastAccessedAt null; lastAccessedAt changes only in the
\* step in which a redirect that has passed the lookup counts its click, where
\* it becomes the current time; and the record of every code for which a 302
\* is being sent has a lastAccessedAt.
C19_LastAccessedIffClicked ==
  /\ [](/\ \A row \in urls : (row.last_accessed = NullTime) <=> (row.clicks = 0)
        /\ \A in \in CreateInputs :
             LET res == PostShortUrlsResult(in[1], in[2], in[3], in[4])
             IN res.resp.status = 201
                => \E row \in res.table \ urls :
                     /\ row.code = res.resp.code
                     /\ row.clicks = 0
                     /\ row.last_accessed = NullTime
        /\ resp.status = 302
           => \A row \in RowsOf(resp.code) :
                row.last_accessed # NullTime /\ row.clicks >= 1)
  /\ [][\A row \in urls : \A next \in urls' :
          next.code = row.code /\ next.last_accessed # row.last_accessed
          => /\ next.clicks = row.clicks + 1
             /\ next.last_accessed = (now \div 1000) * 1000
             /\ \E q \in BagToSet(inflight) :
                  /\ q.pc = "updateOnVisit" /\ q.code = row.code
                  /\ inflight' = Leave(q) (+) SetToBag({[q EXCEPT !.pc = "insertVisit"]})]_vars

\* A 302 is being sent for a record visited twice, the second time later than
\* the first, next to a record that was never visited.
C19_Witness ==
  /\ resp.op = "redirect" /\ resp.status = 302
  /\ \E row \in RowsOf(resp.code) :
       row.clicks = 2 /\ row.last_accessed > row.created_at
  /\ \E other \in urls : other.clicks = 0 /\ other.last_accessed = NullTime

====
